---- MODULE Spec2Model ----
(***************************************************************************)
(* The OAuth 2.0 authorization-code demo client, in its two variants:      *)
(*   "plain"  src/server.js          (no PKCE; has /tokeninfo)             *)
(*   "pkce"   src/unnamed/part_000   (PKCE; has /introspect and /revoke)   *)
(* One process-wide session (state, codeVerifier, tokens) is shared by     *)
(* every request handler.  A handler runs synchronously up to its provider *)
(* call (an awaited fetch), is suspended there, and is resumed with the    *)
(* provider's result; between the two parts other handlers may run.        *)
(* `exchanged` is a history variable: the provider has answered some code   *)
(* exchange of /callback with a success response.                          *)
(***************************************************************************)
EXTENDS Integers, FiniteSets, Bags, TLC

VARIABLES variant, state, codeVerifier, params, tokens, pending, out, exchanged

vars == <<variant, state, codeVerifier, params, tokens, pending, out, exchanged>>

\* ------------------------------------------------------------------ bounds
\* Handlers that may be suspended on a provider call at the same time.
MaxInFlight == 2
\* Distinct token generations the provider mints (one per success response).
MaxGen == 2

\* ------------------------------------------------------------- value space
Variants == {"plain", "pkce"}
\* shortid.generate() values
StateVals == {"s1", "s2"}
\* generateCodeVerifier() values
Verifiers == {"v1", "v2"}
\* a query parameter that the request does not carry (JS undefined)
Absent == "<absent>"
\* authorization codes a callback request may carry
Codes == {"c1"}

\* JS undefined, as the value of a property that was never assigned
Undefined == [undefined |-> TRUE]
\* A token string, named by its kind and by the provider response that minted it
Tok(k, n) == [kind |-> k, gen |-> n]
Gens == 1..MaxGen

CLIENT_ID == "client-id"
CLIENT_SECRET == "client-secret"
REDIRECT_URI == "http://localhost:PORT/callback"

\* JS property read: body.f, undefined when the object has no such property
Get(body, f) == IF f \in DOMAIN body THEN body[f] ELSE Undefined

\* The test with its negation dropped.
FalsyInverted(t) == t /= Undefined

\* JS `!t` for a token field (a token, when present, is a non-empty string)
Falsy(t) == t = Undefined

\* ------------------------------------------------------- provider answers
\* A success body of the token endpoint: access_token always, refresh_token and
\* id_token when the provider chooses to return them.
TokenBody(n, withRefresh, withId) ==
    IF withRefresh
    THEN IF withId
         THEN [access_token |-> Tok("access", n), refresh_token |-> Tok("refresh", n),
               id_token |-> Tok("id", n)]
         ELSE [access_token |-> Tok("access", n), refresh_token |-> Tok("refresh", n)]
    ELSE IF withId
         THEN [access_token |-> Tok("access", n), id_token |-> Tok("id", n)]
         ELSE [access_token |-> Tok("access", n)]

ErrorBody == [error |-> "provider_error"]

\* What an awaited fetch of the token endpoint can produce: a 200 with a token
\* body, a non-success status with the provider's JSON error body, or a rejection
\* (network failure, or a body that is not JSON).
TokenResults ==
    {[kind |-> "ok", status |-> 200, body |-> TokenBody(n, r, i)] :
        n \in Gens, r \in BOOLEAN, i \in BOOLEAN}
    \cup {[kind |-> "err", status |-> 400, body |-> ErrorBody]}
    \cup {[kind |-> "fail"]}

\* The same for the userinfo, introspection and revocation endpoints, whose
\* bodies the client passes through without reading.
OpaqueResults ==
    {[kind |-> "ok", status |-> 200, body |-> [payload |-> "provider_json"]],
     [kind |-> "err", status |-> 400, body |-> ErrorBody],
     [kind |-> "fail"]}

\* fetch(...).then((res) => res.json()).catch((error) => error.data):
\* the parsed body whatever the status, and undefined when the fetch rejected.
ThenJsonCatch(result) == IF result.kind = "fail" THEN Undefined ELSE result.body

\* ------------------------------------------------------------ PKCE helpers
\* SHA-256 then base64url of the verifier: a deterministic, collision-free digest,
\* kept as the term it computes.
generateCodeChallenge(verifier) == [base64url |-> [sha256 |-> verifier]]

\* Parameters whose challenge is derived from another, freshly generated verifier.
ParamsOtherVerifier(v, st, cv) ==
    IF v = "pkce"
    THEN [response_type |-> "code", client_id |-> CLIENT_ID, redirect_uri |-> REDIRECT_URI,
          scope |-> "email profile", state |-> st,
          code_challenge |-> generateCodeChallenge(CHOOSE w \in Verifiers : w /= cv),
          code_challenge_method |-> "S256"]
    ELSE [response_type |-> "code", client_id |-> CLIENT_ID, redirect_uri |-> REDIRECT_URI,
          scope |-> "email profile", state |-> st]

\* The authorization parameters, built once at startup.
Params(v, st, cv) ==
    IF v = "pkce"
    THEN [response_type |-> "code", client_id |-> CLIENT_ID, redirect_uri |-> REDIRECT_URI,
          scope |-> "email profile", state |-> st,
          code_challenge |-> generateCodeChallenge(cv), code_challenge_method |-> "S256"]
    ELSE [response_type |-> "code", client_id |-> CLIENT_ID, redirect_uri |-> REDIRECT_URI,
          scope |-> "email profile", state |-> st]

\* ------------------------------------------------------------------ routes
Routes(v) ==
    IF v = "pkce"
    THEN {"/", "/callback", "/refresh", "/userinfo", "/introspect/access",
          "/introspect/refresh", "/revoke/access", "/revoke/refresh"}
    ELSE {"/", "/callback", "/refresh", "/userinfo", "/tokeninfo"}

\* --------------------------------------------------- what a step lets out
\* `out` is the one thing the step just taken let out of the process: an outbound
\* provider call, a response to the caller, or an exception leaving the handler.
\* `at` tells the handler's synchronous part ("request") from its continuation
\* after the awaited provider call ("resume").
NoAuth == [scheme |-> "none"]
Bearer(token) == [scheme |-> "Bearer", credentials |-> token]
\* Buffer.from(`${CLIENT_ID}:${CLIENT_SECRET}`).toString("base64")
Basic(id, secret) == [scheme |-> "Basic", credentials |-> [base64 |-> <<id, ":", secret>>]]

ProviderCall(route, at, url, method, auth, body) ==
    [type |-> "call", route |-> route, at |-> at, url |-> url, method |-> method,
     auth |-> auth, body |-> body]

Respond(route, at, status, data) ==
    [type |-> "response", route |-> route, at |-> at, status |-> status, data |-> data]

Throw(route, error) ==
    [type |-> "throw", route |-> route, at |-> "resume", error |-> error]

\* const { code, state: callbackState } = qs.parse(req.query), as the handler of
\* /callback read it; kept with what its synchronous part lets out.
WithQuery(e, code, callbackState) ==
    e @@ [query |-> [code |-> code, state |-> callbackState]]

\* A suspended handler: its route, which await it is at, and the locals it holds.
Cont(route, step, held) == [route |-> route, step |-> step, held |-> held]
Suspend(c) == pending (+) SetToBag({c})
Resume(c) == pending (-) SetToBag({c})
CanSuspend == BagCardinality(pending) < MaxInFlight

NoTokens == [accessToken |-> Undefined, refreshToken |-> Undefined, idToken |-> Undefined]

\* ------------------------------------------------------------------- Init
Init ==
    /\ variant \in Variants
    /\ state \in StateVals
    /\ codeVerifier \in (IF variant = "pkce" THEN Verifiers ELSE {Absent})
    /\ params = Params(variant, state, codeVerifier)
    /\ tokens = NoTokens
    /\ pending = EmptyBag
    /\ out = [type |-> "listening"]
    /\ exchanged = FALSE

\* ------------------------------------------------------------------ GET /
\* A GET / that starts every authorization attempt with a fresh nonce.
GetRootRegenerating ==
    /\ \E s \in StateVals :
          /\ state' = s
          /\ params' = [params EXCEPT !.state = s]
          /\ out' = Respond("/", "request", 200,
                            [loginUrl |-> [url |-> "/oauth/authorize", query |-> params']])
    /\ UNCHANGED <<exchanged, variant, codeVerifier, tokens, pending>>

\* A GET / that starts every authorization attempt with a fresh PKCE verifier.
GetRootNewVerifier ==
    /\ \E w \in Verifiers :
          /\ codeVerifier' = (IF variant = "pkce" THEN w ELSE codeVerifier)
          /\ params' = Params(variant, state, codeVerifier')
          /\ out' = Respond("/", "request", 200,
                            [loginUrl |-> [url |-> "/oauth/authorize", query |-> params']])
    /\ UNCHANGED <<exchanged, variant, state, tokens, pending>>

GetRoot ==
    /\ out' = Respond("/", "request", 200,
                      [loginUrl |-> [url |-> "/oauth/authorize",
                                     query |-> params]])
    /\ UNCHANGED <<exchanged, variant, state, codeVerifier, params, tokens, pending>>

\* ------------------------------------------------------------- /callback
\* callbackState !== state
\* A check that lets a callback without any state parameter through.
StateMismatchLenient(callbackState, st) == callbackState /= st /\ callbackState /= Absent

\* A check that also rejects the nonce once the session holds an access token.
StateMismatchConsumed(callbackState, st) ==
    callbackState /= st \/ tokens.accessToken /= Undefined

StateMismatch(callbackState, st) == callbackState /= st

\* qs.stringify leaves out a key whose value is undefined.
EmptyForm == [k \in {} |-> Undefined]
FormField(k, v, present) == IF present THEN [f \in {k} |-> v] ELSE EmptyForm

\* An exchange that sends a verifier generated anew instead of the stored one.
ExchangeBodyOtherVerifier(v, code, cv) ==
    [client_id |-> CLIENT_ID, client_secret |-> CLIENT_SECRET,
     grant_type |-> "authorization_code", redirect_uri |-> REDIRECT_URI]
    @@ FormField("code", code, code /= Absent)
    @@ FormField("code_verifier", CHOOSE w \in Verifiers : w /= cv, v = "pkce")

\* The form body of the code-for-token POST.
ExchangeBody(v, code, cv) ==
    [client_id |-> CLIENT_ID, client_secret |-> CLIENT_SECRET,
     grant_type |-> "authorization_code", redirect_uri |-> REDIRECT_URI]
    @@ FormField("code", code, code /= Absent)
    @@ FormField("code_verifier", cv, v = "pkce")

\* An exchange that forgets the id token.
CallbackTokensPartial(t, r) ==
    [t EXCEPT !.accessToken = Get(r, "access_token"),
              !.refreshToken = Get(r, "refresh_token")]

CallbackTokens(t, r) ==
    [t EXCEPT !.accessToken = Get(r, "access_token"),
              !.refreshToken = Get(r, "refresh_token"),
              !.idToken = Get(r, "id_token")]

Callback(code, callbackState) ==
    /\ IF StateMismatch(callbackState, state)
       THEN /\ out' = WithQuery(Respond("/callback", "request", 400,
                                         "State param mismatch"),
                                 code, callbackState)
            /\ UNCHANGED <<tokens, pending>>
       ELSE /\ CanSuspend
            /\ pending' = Suspend(Cont("/callback", 1, Undefined))
            /\ out' = WithQuery(ProviderCall("/callback", "request", "/oauth/token",
                                              "POST", NoAuth,
                                              ExchangeBody(variant, code, codeVerifier)),
                                 code, callbackState)
            /\ UNCHANGED tokens
    /\ UNCHANGED <<exchanged, variant, state, codeVerifier, params>>

\* The continuation of /callback after the awaited exchange.
\*   plain: the body is parsed whatever the status and its fields are assigned;
\*          a rejected fetch leaves `response` undefined and reading
\*          response.access_token throws.
\*   pkce:  the fetch is awaited bare (a rejection leaves the handler), a status
\*          other than 200 returns the error body without touching tokens.
CallbackResume(c, result) ==
    /\ c \in BagToSet(pending)
    /\ c.route = "/callback"
    /\ pending' = Resume(c)
    /\ IF variant = "plain"
       THEN LET response == ThenJsonCatch(result) IN
            IF response = Undefined
            THEN /\ out' = Throw("/callback", "TypeError")
                 /\ UNCHANGED tokens
            ELSE /\ tokens' = CallbackTokens(tokens, response)
                 /\ out' = Respond("/callback", "resume", 200, response)
       ELSE IF result.kind = "fail"
            THEN /\ out' = Throw("/callback", "FetchError")
                 /\ UNCHANGED tokens
            ELSE IF result.status /= 200
                 THEN /\ out' = Respond("/callback", "resume", 200, result.body)
                      /\ UNCHANGED tokens
                 ELSE /\ tokens' = CallbackTokens(tokens, result.body)
                      /\ out' = Respond("/callback", "resume", 200, result.body)
    /\ exchanged' = (exchanged \/ result.kind = "ok")
    /\ UNCHANGED <<variant, state, codeVerifier, params>>

\* --------------------------------------------------------------- /refresh
NoRefreshToken == [error |-> "No refresh token available. Please authorize first."]
NoAccessToken == [error |-> "No access token available. Please authorize first."]
NoTokensAvailable == [error |-> "No tokens available. Please authorize first."]

RefreshBody(t) ==
    [client_id |-> CLIENT_ID, client_secret |-> CLIENT_SECRET,
     refresh_token |-> t.refreshToken, grant_type |-> "refresh_token",
     redirect_uri |-> REDIRECT_URI]

\* A refresh that assigns the access token alone.
RefreshTokensAccessOnly(t, r) == [t EXCEPT !.accessToken = Get(r, "access_token")]

\* A refresh that also assigns the ID token from its response.
RefreshTokensWithId(t, r) ==
    [t EXCEPT !.accessToken = Get(r, "access_token"),
              !.refreshToken = Get(r, "refresh_token"),
              !.idToken = Get(r, "id_token")]

\* A refresh that leaves alone a pair the session already holds.
RefreshTokensFirstWins(t, r) ==
    IF t.accessToken = Undefined
    THEN [t EXCEPT !.accessToken = Get(r, "access_token"),
                   !.refreshToken = Get(r, "refresh_token")]
    ELSE t

\* tokens.accessToken = r.access_token; tokens.refreshToken = r.refresh_token
RefreshTokens(t, r) ==
    [t EXCEPT !.accessToken = Get(r, "access_token"),
              !.refreshToken = Get(r, "refresh_token")]

Refresh ==
    /\ IF Falsy(tokens.refreshToken)
       THEN /\ out' = Respond("/refresh", "request", 200, NoRefreshToken)
            /\ UNCHANGED pending
       ELSE /\ CanSuspend
            /\ pending' = Suspend(Cont("/refresh", 1, Undefined))
            /\ out' = ProviderCall("/refresh", "request", "/oauth/token", "POST", NoAuth,
                                   RefreshBody(tokens))
    /\ UNCHANGED <<exchanged, variant, state, codeVerifier, params, tokens>>

RefreshResume(c, result) ==
    /\ c \in BagToSet(pending)
    /\ c.route = "/refresh"
    /\ pending' = Resume(c)
    /\ LET response == ThenJsonCatch(result) IN
       IF response = Undefined
       THEN /\ out' = Throw("/refresh", "TypeError")
            /\ UNCHANGED tokens
       ELSE /\ tokens' = RefreshTokens(tokens, response)
            /\ out' = Respond("/refresh", "resume", 200, response)
    /\ UNCHANGED <<exchanged, variant, state, codeVerifier, params>>

\* -------------------------------------------------------------- /userinfo
\* A userinfo request that presents the refresh token as its bearer credential.
UserinfoFetchRefreshBearer(t) ==
    [url |-> "/oauth/userinfo", method |-> "GET", auth |-> Bearer(t.refreshToken),
     body |-> Undefined]

\* fetch(`${FAPI_URL}/oauth/userinfo`, {headers: {Authorization: `Bearer ...`}})
UserinfoFetch(t) ==
    [url |-> "/oauth/userinfo", method |-> "GET", auth |-> Bearer(t.accessToken),
     body |-> Undefined]

Userinfo ==
    /\ IF Falsy(tokens.accessToken)
       THEN /\ out' = Respond("/userinfo", "request", 200, NoAccessToken)
            /\ UNCHANGED pending
       ELSE /\ CanSuspend
            /\ pending' = Suspend(Cont("/userinfo", 1, Undefined))
            /\ out' = LET f == UserinfoFetch(tokens) IN
                      ProviderCall("/userinfo", "request", f.url, f.method, f.auth, f.body)
    /\ UNCHANGED <<exchanged, variant, state, codeVerifier, params, tokens>>

UserinfoResume(c, result) ==
    /\ c \in BagToSet(pending)
    /\ c.route = "/userinfo"
    /\ pending' = Resume(c)
    /\ out' = Respond("/userinfo", "resume", 200, ThenJsonCatch(result))
    /\ UNCHANGED <<exchanged, variant, state, codeVerifier, params, tokens>>

\* ------------------------------------------------- /tokeninfo (plain only)
\* !tokens.refreshToken || !tokens.accessToken
\* A precondition that fails only when both tokens are missing.
TokeninfoUnavailableBoth(t) == Falsy(t.refreshToken) /\ Falsy(t.accessToken)

TokeninfoUnavailable(t) == Falsy(t.refreshToken) \/ Falsy(t.accessToken)

Fetch(url, method, auth, body) ==
    [url |-> url, method |-> method, auth |-> auth, body |-> body]

CallOf(route, at, f) == ProviderCall(route, at, f.url, f.method, f.auth, f.body)

Tokeninfo ==
    /\ "/tokeninfo" \in Routes(variant)
    /\ IF TokeninfoUnavailable(tokens)
       THEN /\ out' = Respond("/tokeninfo", "request", 200, NoTokensAvailable)
            /\ UNCHANGED pending
       ELSE /\ CanSuspend
            /\ pending' = Suspend(Cont("/tokeninfo", 1, Undefined))
            /\ out' = ProviderCall("/tokeninfo", "request", "/oauth/token_info", "POST",
                                   Bearer(tokens.accessToken),
                                   [token |-> tokens.refreshToken])
    /\ UNCHANGED <<exchanged, variant, state, codeVerifier, params, tokens>>

\* After the first introspection: keep its result and send the second one,
\* reading tokens.accessToken as it is now.
TokeninfoResume1(c, result) ==
    /\ c \in BagToSet(pending)
    /\ c.route = "/tokeninfo"
    /\ c.step = 1
    /\ pending' = Resume(c) (+) SetToBag({Cont("/tokeninfo", 2, ThenJsonCatch(result))})
    /\ out' = ProviderCall("/tokeninfo", "resume", "/oauth/token_info", "POST", NoAuth,
                           FormField("token", tokens.accessToken,
                                     tokens.accessToken /= Undefined))
    /\ UNCHANGED <<exchanged, variant, state, codeVerifier, params, tokens>>

TokeninfoResume2(c, result) ==
    /\ c \in BagToSet(pending)
    /\ c.route = "/tokeninfo"
    /\ c.step = 2
    /\ pending' = Resume(c)
    /\ out' = Respond("/tokeninfo", "resume", 200,
                      [refreshToken |-> c.held, accessToken |-> ThenJsonCatch(result)])
    /\ UNCHANGED <<exchanged, variant, state, codeVerifier, params, tokens>>

\* ------------------------------------------------ /introspect (pkce only)
\* An introspection sent without the client's credentials.
introspectTokenUnauthenticated(token) ==
    Fetch("/oauth/token_info", "POST", NoAuth, [token |-> token])

introspectToken(token) ==
    Fetch("/oauth/token_info", "POST", Basic(CLIENT_ID, CLIENT_SECRET), [token |-> token])

IntrospectAccess ==
    /\ "/introspect/access" \in Routes(variant)
    /\ IF Falsy(tokens.accessToken)
       THEN /\ out' = Respond("/introspect/access", "request", 200, NoAccessToken)
            /\ UNCHANGED pending
       ELSE /\ CanSuspend
            /\ pending' = Suspend(Cont("/introspect/access", 1, Undefined))
            /\ out' = CallOf("/introspect/access", "request",
                             introspectToken(tokens.accessToken))
    /\ UNCHANGED <<exchanged, variant, state, codeVerifier, params, tokens>>

IntrospectRefresh ==
    /\ "/introspect/refresh" \in Routes(variant)
    /\ IF Falsy(tokens.refreshToken)
       THEN /\ out' = Respond("/introspect/refresh", "request", 200, NoRefreshToken)
            /\ UNCHANGED pending
       ELSE /\ CanSuspend
            /\ pending' = Suspend(Cont("/introspect/refresh", 1, Undefined))
            /\ out' = CallOf("/introspect/refresh", "request",
                             introspectToken(tokens.refreshToken))
    /\ UNCHANGED <<exchanged, variant, state, codeVerifier, params, tokens>>

IntrospectResume(c, result) ==
    /\ c \in BagToSet(pending)
    /\ c.route \in {"/introspect/access", "/introspect/refresh"}
    /\ pending' = Resume(c)
    /\ out' = Respond(c.route, "resume", 200, ThenJsonCatch(result))
    /\ UNCHANGED <<exchanged, variant, state, codeVerifier, params, tokens>>

\* ---------------------------------------------------- /revoke (pkce only)
\* A revocation that always hints at an access token.
revokeTokenFixedHint(token, tokenTypeHint) ==
    Fetch("/oauth/token/revoke", "POST", Basic(CLIENT_ID, CLIENT_SECRET),
          [token |-> token, token_type_hint |-> "access_token"])

revokeToken(token, tokenTypeHint) ==
    Fetch("/oauth/token/revoke", "POST", Basic(CLIENT_ID, CLIENT_SECRET),
          [token |-> token, token_type_hint |-> tokenTypeHint])

\* The session as the revoke handlers leave it: they assign nothing to tokens.
\* A revocation that also drops the revoked token from the session.
RevokedSessionCleared(t, tokenTypeHint) ==
    IF tokenTypeHint = "access_token"
    THEN [t EXCEPT !.accessToken = Undefined]
    ELSE [t EXCEPT !.refreshToken = Undefined]

RevokedSession(t, tokenTypeHint) == t

RevokeAccess ==
    /\ "/revoke/access" \in Routes(variant)
    /\ IF Falsy(tokens.accessToken)
       THEN /\ out' = Respond("/revoke/access", "request", 200, NoAccessToken)
            /\ UNCHANGED pending
       ELSE LET f == revokeToken(tokens.accessToken, "access_token") IN
            /\ CanSuspend
            /\ pending' = Suspend(Cont("/revoke/access", 1, f.body))
            /\ out' = CallOf("/revoke/access", "request", f)
    /\ UNCHANGED <<exchanged, variant, state, codeVerifier, params, tokens>>

RevokeRefresh ==
    /\ "/revoke/refresh" \in Routes(variant)
    /\ IF Falsy(tokens.refreshToken)
       THEN /\ out' = Respond("/revoke/refresh", "request", 200, NoRefreshToken)
            /\ UNCHANGED pending
       ELSE LET f == revokeToken(tokens.refreshToken, "refresh_token") IN
            /\ CanSuspend
            /\ pending' = Suspend(Cont("/revoke/refresh", 1, f.body))
            /\ out' = CallOf("/revoke/refresh", "request", f)
    /\ UNCHANGED <<exchanged, variant, state, codeVerifier, params, tokens>>

RevokeResume(c, result) ==
    /\ c \in BagToSet(pending)
    /\ c.route \in {"/revoke/access", "/revoke/refresh"}
    /\ pending' = Resume(c)
    /\ tokens' = RevokedSession(tokens, c.held.token_type_hint)
    /\ out' = Respond(c.route, "resume", 200,
                      [revocation |-> [requestBody |-> c.held,
                                       response |-> ThenJsonCatch(result)]])
    /\ UNCHANGED <<exchanged, variant, state, codeVerifier, params>>

\* ------------------------------------------------------------------- Next
QueryCodes == Codes \cup {Absent}
QueryStates == StateVals \cup {Absent}

Next ==
    \/ GetRoot
    \/ \E code \in QueryCodes, callbackState \in QueryStates : Callback(code, callbackState)
    \/ \E c \in BagToSet(pending), result \in TokenResults : CallbackResume(c, result)
    \/ Refresh
    \/ \E c \in BagToSet(pending), result \in TokenResults : RefreshResume(c, result)
    \/ Userinfo
    \/ \E c \in BagToSet(pending), result \in OpaqueResults : UserinfoResume(c, result)
    \/ Tokeninfo
    \/ \E c \in BagToSet(pending), result \in OpaqueResults : TokeninfoResume1(c, result)
    \/ \E c \in BagToSet(pending), result \in OpaqueResults : TokeninfoResume2(c, result)
    \/ IntrospectAccess
    \/ IntrospectRefresh
    \/ \E c \in BagToSet(pending), result \in OpaqueResults : IntrospectResume(c, result)
    \/ RevokeAccess
    \/ RevokeRefresh
    \/ \E c \in BagToSet(pending), result \in OpaqueResults : RevokeResume(c, result)

Spec == Init /\ [][Next]_vars

\* ======================================================================
\* Properties
\* ======================================================================
\* e is what the part `at` of a handler of `route` let out.
By(e, route, at) == "route" \in DOMAIN e /\ e.route = route /\ e.at = at

\* e is a response to the caller that passes on a token-endpoint success body.
PassesTokenBody(e) == e.type = "response" /\ "access_token" \in DOMAIN e.data

\* e is a response to the caller that passes on the provider's error body.
PassesErrorBody(e) == e.type = "response" /\ e.data = ErrorBody

FromBody(body) ==
    [accessToken |-> Get(body, "access_token"), refreshToken |-> Get(body, "refresh_token"),
     idToken |-> Get(body, "id_token")]

\* C1: a GET /callback whose state parameter differs from the session's state is
\* answered 400, sends no provider call (the step lets out the response and
\* suspends no handler) and leaves the three tokens as they were, whatever the
\* session holds and whatever handlers are suspended.
C1_MismatchRejected ==
    [][(By(out', "/callback", "request") /\ out'.query.state /= state)
        => /\ out'.type = "response"
           /\ out'.status = 400
           /\ pending' = pending
           /\ tokens' = tokens]_vars

\* A mismatching callback was just rejected while the session held tokens and
\* another handler was suspended on its provider call.
C1_Witness ==
    /\ By(out, "/callback", "request")
    /\ out.query.state /= state
    /\ out.type = "response"
    /\ tokens.accessToken /= Undefined
    /\ pending /= EmptyBag

\* C2: when the provider answers the exchange of /callback with a non-success
\* response (the caller is shown the provider's error body), the three tokens
\* keep the values they had before, in both variants.
C2_FailedExchangeKeepsTokens ==
    [][(By(out', "/callback", "resume") /\ PassesErrorBody(out'))
        => tokens' = tokens]_vars

\* C3: a /callback whose exchange the provider answers with a success body
\* leaves all three tokens equal to the fields of that one body.
C3_ExchangeSetsAllThree ==
    [][(By(out', "/callback", "resume") /\ PassesTokenBody(out'))
        => tokens' = FromBody(out'.data)]_vars

\* An exchange just replaced a session that held other tokens, with another
\* handler suspended meanwhile.
C3_Witness ==
    /\ By(out, "/callback", "resume")
    /\ out.type = "response"
    /\ out.data = TokenBody(2, TRUE, TRUE)
    /\ tokens = FromBody(out.data)
    /\ pending /= EmptyBag

\* The routes whose handlers first check a token of the session.
TokenRoutes ==
    {"/refresh", "/userinfo", "/introspect/access", "/introspect/refresh",
     "/revoke/access", "/revoke/refresh", "/tokeninfo"}

\* The token(s) the operation of `route` requires are not all in session t.
Missing(route, t) ==
    CASE route \in {"/refresh", "/introspect/refresh", "/revoke/refresh"}
            -> t.refreshToken = Undefined
      [] route \in {"/userinfo", "/introspect/access", "/revoke/access"}
            -> t.accessToken = Undefined
      [] route = "/tokeninfo"
            -> t.refreshToken = Undefined \/ t.accessToken = Undefined

\* The structured "no token available" payload of `route`.
NoTokenPayload(route) ==
    CASE route \in {"/refresh", "/introspect/refresh", "/revoke/refresh"} -> NoRefreshToken
      [] route \in {"/userinfo", "/introspect/access", "/revoke/access"} -> NoAccessToken
      [] route = "/tokeninfo" -> NoTokensAvailable

\* C4: a request to a token route made while a token it requires is absent from
\* the session is answered with the route's "no token available" payload and
\* status 200, sends no provider call and leaves the session as it was.
C4_MissingTokenShortCircuits ==
    [][\A route \in TokenRoutes :
         (By(out', route, "request") /\ Missing(route, tokens))
           => /\ out'.type = "response"
              /\ out'.status = 200
              /\ out'.data = NoTokenPayload(route)
              /\ pending' = pending
              /\ tokens' = tokens]_vars

\* /tokeninfo was just refused for a session that holds an access token but no
\* refresh token, with a handler suspended meanwhile.
C4_Witness ==
    /\ By(out, "/tokeninfo", "request")
    /\ out.type = "response"
    /\ out.data = NoTokensAvailable
    /\ tokens.accessToken /= Undefined
    /\ tokens.refreshToken = Undefined
    /\ pending /= EmptyBag

\* C5: a successful /refresh overwrites accessToken from the response, and
\* refreshToken only when the response carries one; a response without
\* refresh_token leaves the session's refresh token in place.
C5_RefreshKeepsOmittedRefreshToken ==
    [][(By(out', "/refresh", "resume") /\ PassesTokenBody(out'))
        => /\ tokens'.accessToken = out'.data.access_token
           /\ tokens'.refreshToken = IF "refresh_token" \in DOMAIN out'.data
                                    THEN out'.data.refresh_token
                                    ELSE tokens.refreshToken]_vars

\* C6: a /refresh whose provider call is answered with a non-success response,
\* or fails at the network level, leaves accessToken and refreshToken as they
\* were.
C6_FailedRefreshKeepsTokens ==
    [][(By(out', "/refresh", "resume") /\ (PassesErrorBody(out') \/ out'.type = "throw"))
        => /\ tokens'.accessToken = tokens.accessToken
           /\ tokens'.refreshToken = tokens.refreshToken]_vars

\* C7: whenever the provider call of a suspended handler completes (success,
\* non-success or network failure) the handler goes on to answer its caller:
\* no completion ends with an exception leaving the handler unanswered.
C7_EveryCompletionAnswered == out.type /= "throw"

\* C8: no step of /revoke/access or /revoke/refresh, whatever the provider
\* answers, changes accessToken, refreshToken or idToken.
C8_RevokeKeepsSession ==
    [][(By(out', "/revoke/access", "resume") \/ By(out', "/revoke/refresh", "resume")
        \/ By(out', "/revoke/access", "request") \/ By(out', "/revoke/refresh", "request"))
        => tokens' = tokens]_vars

\* A revocation the provider accepted has just been answered, and the revoked
\* token is still the session's.
C8_Witness ==
    /\ By(out, "/revoke/refresh", "resume")
    /\ out.data.revocation.response /= Undefined
    /\ out.data.revocation.response /= ErrorBody
    /\ tokens.refreshToken = out.data.revocation.requestBody.token

\* C9: the session's state nonce never changes: no step of any handler, in any
\* interleaving, assigns the value the callback compares with.
C9_StateImmutable == [][state' = state]_vars

\* A matching and then a mismatching callback have been processed, and the
\* authorization parameters built at startup still carry the compared state.
C9_Witness ==
    /\ By(out, "/callback", "request")
    /\ out.type = "response"
    /\ out.status = 400
    /\ tokens.idToken /= Undefined
    /\ params.state = state

C11_RevokeSendsSelectedToken ==
    [][/\ (By(out', "/revoke/access", "request") /\ out'.type = "call")
            => /\ out'.url = "/oauth/token/revoke"
               /\ out'.body = [token |-> tokens.accessToken,
                               token_type_hint |-> "access_token"]
               /\ out'.body.token.kind = "access"
       /\ (By(out', "/revoke/refresh", "request") /\ out'.type = "call")
            => /\ out'.url = "/oauth/token/revoke"
               /\ out'.body = [token |-> tokens.refreshToken,
                               token_type_hint |-> "refresh_token"]
               /\ out'.body.token.kind = "refresh"]_vars

\* A revocation of the session's refresh token has just been sent, while the
\* session also holds an access token.
C11_Witness ==
    /\ By(out, "/revoke/refresh", "request")
    /\ out.type = "call"
    /\ out.body.token = Tok("refresh", 2)
    /\ tokens.accessToken /= Undefined

\* C12: a /userinfo request that passes its precondition sends one provider
\* call, a GET of the userinfo endpoint whose bearer credential is the session's
\* accessToken at that time, and its continuation sends no further call.
C12_UserinfoSendsSessionAccessToken ==
    [][/\ (By(out', "/userinfo", "request") /\ ~Falsy(tokens.accessToken))
            => /\ out'.type = "call"
               /\ out'.url = "/oauth/userinfo"
               /\ out'.auth = Bearer(tokens.accessToken)
               /\ pending' = pending (+) SetToBag({Cont("/userinfo", 1, Undefined)})
       /\ By(out', "/userinfo", "resume")
            => /\ out'.type = "response"
               /\ BagCardinality(pending') = BagCardinality(pending) - 1]_vars

\* /userinfo has just presented the access token of a refresh that replaced the
\* exchange's one (the id token is still the exchange's).
C12_Witness ==
    /\ By(out, "/userinfo", "request")
    /\ out.type = "call"
    /\ out.auth = Bearer(Tok("access", 2))
    /\ tokens.accessToken = Tok("access", 2)
    /\ tokens.idToken = Tok("id", 1)

\* C13: every authorization URL served by GET / carries the client id, the
\* redirect URI and the session's state (the value the callback accepts); in
\* the PKCE variant also code_challenge_method=S256 and a code_challenge equal
\* to generateCodeChallenge of the session's stored codeVerifier.
C13_AuthorizationUrl ==
    By(out, "/", "request")
      => LET q == out.data.loginUrl.query IN
         /\ out.data.loginUrl.url = "/oauth/authorize"
         /\ q.response_type = "code"
         /\ q.client_id = CLIENT_ID
         /\ q.redirect_uri = REDIRECT_URI
         /\ q.state = state
         /\ ~StateMismatch(q.state, state)
         /\ variant = "pkce"
              => /\ "code_challenge" \in DOMAIN q
                 /\ q.code_challenge = generateCodeChallenge(codeVerifier)
                 /\ q.code_challenge_method = "S256"

\* The PKCE variant has just served its authorization URL again, after an
\* exchange had already filled the session.
C13_Witness ==
    /\ By(out, "/", "request")
    /\ variant = "pkce"
    /\ out.data.loginUrl.query.code_challenge = generateCodeChallenge(codeVerifier)
    /\ tokens.accessToken /= Undefined

\* C14: in the PKCE variant every token exchange sent by /callback after a
\* state match carries grant_type=authorization_code, the code received in the
\* callback and the session's stored verifier, whose challenge is the one the
\* authorization URLs carry.
C14_ExchangeSendsStoredVerifier ==
    [][(variant = "pkce" /\ By(out', "/callback", "request") /\ out'.type = "call")
        => /\ out'.url = "/oauth/token"
           /\ out'.body.grant_type = "authorization_code"
           /\ out'.query.state = state
           /\ IF out'.query.code = Absent
              THEN "code" \notin DOMAIN out'.body
              ELSE "code" \in DOMAIN out'.body /\ out'.body.code = out'.query.code
           /\ "code_verifier" \in DOMAIN out'.body
           /\ out'.body.code_verifier = codeVerifier
           /\ generateCodeChallenge(out'.body.code_verifier) = params.code_challenge]_vars

\* The PKCE variant has just sent an exchange for the code it received.
C14_Witness ==
    /\ variant = "pkce"
    /\ By(out, "/callback", "request")
    /\ out.type = "call"
    /\ out.query.code = "c1"
    /\ out.body.code = "c1"
    /\ out.body.code_verifier = codeVerifier

\* The bodies the token endpoint can answer with (a token names the response
\* that minted it, so two fields of one body carry the same generation).
TokenEndpointBodies == {r.body : r \in {x \in TokenResults : x.kind /= "fail"}}

\* C15: in every reachable state, whatever handlers are suspended, accessToken
\* and refreshToken are the two fields of one provider response (or both are
\* still unset): never the access token of one response beside the refresh
\* token of another.
C15_PairFromOneResponse ==
    \/ tokens.accessToken = Undefined /\ tokens.refreshToken = Undefined
    \/ \E body \in TokenEndpointBodies :
          /\ tokens.accessToken = Get(body, "access_token")
          /\ tokens.refreshToken = Get(body, "refresh_token")

\* A refresh has just replaced the pair of an earlier exchange while a callback
\* was suspended on its own exchange.
C15_Witness ==
    /\ By(out, "/refresh", "resume")
    /\ out.type = "response"
    /\ tokens.accessToken = Tok("access", 2)
    /\ tokens.refreshToken = Tok("refresh", 2)
    /\ tokens.idToken = Tok("id", 1)
    /\ \E c \in BagToSet(pending) : c.route = "/callback"

\* C16: until the provider has answered an exchange of /callback (sent only
\* after a state match) with a success, no token is present and no other
\* handler has passed its precondition: refresh, userinfo, introspect, revoke,
\* tokeninfo, GET / and mismatching callbacks never make a token present.
C16_OnlyExchangeAuthenticates ==
    ~exchanged
      => /\ tokens = NoTokens
         /\ \A c \in BagToSet(pending) : c.route = "/callback"

\* Before any successful exchange: /refresh has just been refused, after a
\* failed exchange, while another callback is suspended.
C16_Witness ==
    /\ ~exchanged
    /\ By(out, "/refresh", "request")
    /\ out.type = "response"
    /\ pending /= EmptyBag

ExchangeInFlight == \E c \in BagToSet(pending) : c.route = "/callback"

\* C17: a GET / that begins a new authorization attempt while an exchange is in
\* flight overwrites the shared state or codeVerifier, so that the value used
\* for the in-flight callback differs from the one of the URL that started it.
C17_GetRootOverwritesNonce ==
    [][(ExchangeInFlight /\ By(out', "/", "request"))
        => (state' /= state \/ codeVerifier' /= codeVerifier)]_vars

\* C17, amended: a GET / served while an exchange is in flight overwrites
\* nothing: state, codeVerifier and the authorization parameters stay what they
\* were, and the URL it serves carries the same state and challenge again.
C17_GetRootKeepsNonce ==
    [][(ExchangeInFlight /\ By(out', "/", "request"))
        => /\ state' = state
           /\ codeVerifier' = codeVerifier
           /\ params' = params
           /\ out'.data.loginUrl.query = params
           /\ params.state = state
           /\ variant = "pkce"
                => params.code_challenge = generateCodeChallenge(codeVerifier)]_vars

\* GET / has just been served while a callback was suspended on its exchange.
C17_Witness ==
    /\ By(out, "/", "request")
    /\ ExchangeInFlight
    /\ out.data.loginUrl.query.state = state

\* C18: the state nonce is never consumed: whatever happened before, a
\* /callback carrying the matching state is accepted, sends a new exchange with
\* the code it was given (none when the code is absent) and suspends on it;
\* with C1, acceptance depends on the returned state alone.
C18_MatchingCallbackAlwaysAccepted ==
    [][(By(out', "/callback", "request") /\ out'.query.state = state)
        => /\ out'.type = "call"
           /\ out'.url = "/oauth/token"
           /\ out'.body.grant_type = "authorization_code"
           /\ IF out'.query.code = Absent
              THEN "code" \notin DOMAIN out'.body
              ELSE "code" \in DOMAIN out'.body /\ out'.body.code = out'.query.code
           /\ pending' = pending (+) SetToBag({Cont("/callback", 1, Undefined)})
           /\ tokens' = tokens]_vars

\* After an exchange that filled all three tokens, a callback with the same
\* state and no code has just been accepted again.
C18_Witness ==
    /\ By(out, "/callback", "request")
    /\ out.type = "call"
    /\ out.query.state = state
    /\ out.query.code = Absent
    /\ exchanged
    /\ tokens = FromBody(TokenBody(1, TRUE, TRUE))

\* The session token a provider call of a token route is meant to carry.
CarriedToken(e) ==
    CASE e.route = "/refresh" -> e.body.refresh_token
      [] e.route = "/userinfo" -> e.auth.credentials
      [] OTHER -> Get(e.body, "token")

\* C19: no provider call meant to carry a session token is sent with an absent
\* token, the second introspection call of /tokeninfo included.
C19_CallsCarryPresentToken ==
    (out.type = "call" /\ out.route \in TokenRoutes) => CarriedToken(out) /= Undefined

\* C20: session writes follow response-processing order: whatever the session
\* holds and whenever its request started, a /callback or /refresh whose
\* success response is processed leaves accessToken and refreshToken those of
\* that response; and a /refresh sends the stored refresh token even while
\* another /refresh is in flight.
C20_LastProcessedResponseWins ==
    [][/\ ((By(out', "/callback", "resume") \/ By(out', "/refresh", "resume"))
           /\ PassesTokenBody(out'))
            => /\ tokens'.accessToken = out'.data.access_token
               /\ tokens'.refreshToken = Get(out'.data, "refresh_token")
       /\ (By(out', "/refresh", "request") /\ out'.type = "call")
            => out'.body.refresh_token = tokens.refreshToken]_vars

\* An exchange has just been processed while a /refresh started before it is
\* still waiting for its answer.
C20_Witness ==
    /\ By(out, "/callback", "resume")
    /\ PassesTokenBody(out)
    /\ tokens.accessToken = Tok("access", 2)
    /\ \E c \in BagToSet(pending) : c.route = "/refresh"

\* C21: idToken is written only by the /callback exchange: a step that changes
\* idToken is the completion of a /callback, and the completion of a /refresh,
\* whatever the provider answered, leaves idToken as it was.
C21_OnlyCallbackWritesIdToken ==
    [][/\ tokens'.idToken /= tokens.idToken => By(out', "/callback", "resume")
       /\ (\E c \in BagToSet(pending) : c.route = "/refresh" /\ pending' = Resume(c))
            => tokens'.idToken = tokens.idToken]_vars

\* A /refresh whose response carried a newer ID token has replaced the access
\* and refresh tokens while the session keeps the ID token of the exchange.
C21_Witness ==
    /\ By(out, "/refresh", "resume")
    /\ PassesTokenBody(out)
    /\ Get(out.data, "id_token") = Tok("id", 2)
    /\ tokens.accessToken = Tok("access", 2)
    /\ tokens.idToken = Tok("id", 1)

====
